---- MODULE Spec2Model ----
(***************************************************************************)
(* Surface bounds of the Acts tracking library: RectangleBounds,           *)
(* DiamondBounds, EllipseBounds, RadialBounds and DiscTrapezoidBounds.     *)
(*                                                                         *)
(* One bounds object is alive at a time.  Lengths and radii are integers,  *)
(* angles are integer multiples of pi / PiU.  A constructor that throws    *)
(* leaves no object behind (shape = "None").                               *)
(***************************************************************************)
EXTENDS Integers, Sequences, FiniteSets

VARIABLES shape, m_values, m_min, m_max, m_boundingBox, call, threw, ret,
          built, m_boundValues, m_TrackList, threads, m_stereo, m_state, hooks

vars == <<shape, m_values, m_min, m_max, m_boundingBox, call, threw, ret,
          built, m_boundValues, m_TrackList, threads, m_stereo, m_state, hooks>>

\* the state that the constructors and queries of the surface bounds leave
\* alone: the volume bounds store, the components of a MultiTrackParameters,
\* the threads that query an object, the member m_stereo of a
\* DiscTrapezoidBounds, which no constructor under src/ writes, and the state
\* of a FiniteStateMachine with the hooks its last operation called
aux == <<m_boundValues, m_TrackList, threads, m_stereo, m_state, hooks>>

(* ------------------------------ bounds --------------------------------- *)
\* lengths and radii range over -MaxNeg .. MaxLen
MaxLen == 3
MaxNeg == 2
\* angles range over -MaxAng .. MaxAng, in units of pi / PiU
MaxAng == 3
\* pi, in angle units
PiU == 2

Lens == (0 - MaxNeg) .. MaxLen
Angs == (0 - MaxAng) .. MaxAng

(* ------------------------------ helpers -------------------------------- *)
\* std::abs
Abs(x) == IF x < 0 THEN 0 - x ELSE x

\* std::max
Max(a, b) == IF a < b THEN b ELSE a

\* detail::radian_sym : the representative of an angle in (-pi, pi]
radian_sym(a) == ((a + PiU - 1) % (2 * PiU)) - PiU + 1

\* values[e] for a zero-based enumeration index e
At(values, e) == values[e + 1]

\* the value of a member that no constructor has written
Indeterminate == "indeterminate"

\* an object that was never built, or whose constructor threw
NoBox == [ok |-> FALSE, m_min |-> <<>>, m_max |-> <<>>]

(* --------------------------- RectangleBounds --------------------------- *)
Rectangle_eMinX == 0
Rectangle_eMinY == 1
Rectangle_eMaxX == 2
Rectangle_eMaxY == 3

\* RectangleBounds::values with the y minimum and the x maximum exchanged
Rectangle_values_swapped(mn, mx) == <<mn[1], mx[1], mn[2], mx[2]>>

\* RectangleBounds::values
Rectangle_values(mn, mx) == <<mn[1], mn[2], mx[1], mx[2]>>

\* RectangleBounds::get
Rectangle_get(mn, mx, bValue) ==
  CASE bValue = Rectangle_eMinX -> mn[1]
    [] bValue = Rectangle_eMinY -> mn[2]
    [] bValue = Rectangle_eMaxX -> mx[1]
    [] OTHER -> mx[2]

\* RectangleBounds::checkConsistency without the test of the y axis
Rectangle_checkConsistency_xOnly(mn, mx) ==
  ~(Rectangle_get(mn, mx, Rectangle_eMinX) > Rectangle_get(mn, mx, Rectangle_eMaxX))

\* RectangleBounds::checkConsistency : TRUE when it returns without throwing
Rectangle_checkConsistency(mn, mx) ==
  /\ ~(Rectangle_get(mn, mx, Rectangle_eMinX) > Rectangle_get(mn, mx, Rectangle_eMaxX))
  /\ ~(Rectangle_get(mn, mx, Rectangle_eMinY) > Rectangle_get(mn, mx, Rectangle_eMaxY))

\* RectangleBounds(min, max)
Rectangle_fromMinMax(mn, mx) ==
  [ok |-> Rectangle_checkConsistency(mn, mx), m_min |-> mn, m_max |-> mx]

\* RectangleBounds(halfX, halfY) with the half lengths of the maximum exchanged
Rectangle_fromHalf_swapped(halfX, halfY) ==
  LET mn == <<0 - halfX, 0 - halfY>>
      mx == <<halfY, halfX>>
  IN  [ok |-> Rectangle_checkConsistency(mn, mx), m_min |-> mn, m_max |-> mx]

\* RectangleBounds(halfX, halfY)
Rectangle_fromHalf(halfX, halfY) ==
  LET mn == <<0 - halfX, 0 - halfY>>
      mx == <<halfX, halfY>>
  IN  [ok |-> Rectangle_checkConsistency(mn, mx), m_min |-> mn, m_max |-> mx]

\* RectangleBounds(values)
Rectangle_fromArray(values) ==
  LET mn == <<At(values, Rectangle_eMinX), At(values, Rectangle_eMinY)>>
      mx == <<At(values, Rectangle_eMaxX), At(values, Rectangle_eMaxY)>>
  IN  [ok |-> Rectangle_checkConsistency(mn, mx), m_min |-> mn, m_max |-> mx]

\* BoundaryCheck::isInside with zero tolerance: the closed box test
BoundaryCheck_isInside(point, boxMin, boxMax) ==
  /\ boxMin[1] <= point[1] /\ point[1] <= boxMax[1]
  /\ boxMin[2] <= point[2] /\ point[2] <= boxMax[2]

\* how far x lies outside the interval lo .. hi (0 when it is within)
Excess(x, lo, hi) == Max(Max(lo - x, x - hi), 0)

\* the smaller of two numbers
Min(a, b) == IF b < a THEN b ELSE a

\* BoundaryCheck(true).distance : the Euclidean distance to the edge of the
\* box, negative inside.  The value kept here is the square of that distance
\* with the sign of the distance, which is an integer for integer points.
BoundaryCheck_distance(point, boxMin, boxMax) ==
  IF BoundaryCheck_isInside(point, boxMin, boxMax)
  THEN LET d == Min(Min(point[1] - boxMin[1], boxMax[1] - point[1]),
                    Min(point[2] - boxMin[2], boxMax[2] - point[2]))
       IN  0 - d * d
  ELSE LET dx == Excess(point[1], boxMin[1], boxMax[1])
           dy == Excess(point[2], boxMin[2], boxMax[2])
       IN  dx * dx + dy * dy

\* RectangleBounds::inside
Rectangle_inside(mn, mx, lposition) == BoundaryCheck_isInside(lposition, mn, mx)

\* RectangleBounds::distanceToBoundary
Rectangle_distanceToBoundary(mn, mx, lposition) ==
  BoundaryCheck_distance(lposition, mn, mx)

(* ---------------------------- DiamondBounds ---------------------------- *)
Diamond_eHalfLengthXnegY == 0
Diamond_eHalfLengthXzeroY == 1
Diamond_eHalfLengthXposY == 2
Diamond_eHalfLengthYneg == 3
Diamond_eHalfLengthYpos == 4

\* DiamondBounds::get
Diamond_get(values, bValue) == At(values, bValue)

\* DiamondBounds::values
Diamond_values(values) == [i \in 1 .. Len(values) |-> values[i]]

\* the m_boundingBox initialiser of both DiamondBounds constructors:
\* std::max_element over [begin, begin + 2) looks at the first two values
Diamond_boundingBox(values) ==
  Rectangle_fromHalf(Max(values[1], values[2]),
                     Max(At(values, Diamond_eHalfLengthYneg),
                         At(values, Diamond_eHalfLengthYpos)))

\* DiamondBounds::checkConsistency without the test for negative half lengths
Diamond_checkConsistency_noNegative(values) ==
  ~(\/ Diamond_get(values, Diamond_eHalfLengthXnegY)
         > Diamond_get(values, Diamond_eHalfLengthXzeroY)
    \/ Diamond_get(values, Diamond_eHalfLengthXposY)
         > Diamond_get(values, Diamond_eHalfLengthXzeroY))

\* DiamondBounds::checkConsistency : TRUE when it returns without throwing
Diamond_checkConsistency(values) ==
  /\ ~(\E i \in 1 .. Len(values) : values[i] < 0)
  /\ ~(\/ Diamond_get(values, Diamond_eHalfLengthXnegY)
            > Diamond_get(values, Diamond_eHalfLengthXzeroY)
       \/ Diamond_get(values, Diamond_eHalfLengthXposY)
            > Diamond_get(values, Diamond_eHalfLengthXzeroY))

\* DiamondBounds(halfXnegY, halfXzeroY, halfXposY, halfYneg, halfYpos)
Diamond_fromScalars(halfXnegY, halfXzeroY, halfXposY, halfYneg, halfYpos) ==
  LET values == <<halfXnegY, halfXzeroY, halfXposY, halfYneg, halfYpos>>
      box == Diamond_boundingBox(values)
  IN  [ok |-> box.ok /\ Diamond_checkConsistency(values),
       m_values |-> values, m_boundingBox |-> box]

\* DiamondBounds(values) : builds the bounding box, checks nothing else
Diamond_fromArray(values) ==
  LET box == Diamond_boundingBox(values)
  IN  [ok |-> box.ok, m_values |-> values, m_boundingBox |-> box]

\* DiamondBounds::vertices : the six corners, counter-clockwise from the
\* corner at negative x and negative y; lseg is not used
Diamond_vertices(values, lseg) ==
  LET x1 == Diamond_get(values, Diamond_eHalfLengthXnegY)
      y1 == Diamond_get(values, Diamond_eHalfLengthYneg)
      x2 == Diamond_get(values, Diamond_eHalfLengthXzeroY)
      x3 == Diamond_get(values, Diamond_eHalfLengthXposY)
      y3 == Diamond_get(values, Diamond_eHalfLengthYpos)
  IN  << <<0 - x1, 0 - y1>>, <<x1, 0 - y1>>, <<x2, 0>>,
         <<x3, y3>>, <<0 - x3, y3>>, <<0 - x2, 0>> >>

(* ---------------------------- EllipseBounds ---------------------------- *)
Ellipse_eMinR0 == 0
Ellipse_eMaxR0 == 1
Ellipse_eMinR1 == 2
Ellipse_eMaxR1 == 3
Ellipse_eHalfPhiSector == 4
Ellipse_eAveragePhi == 5

\* EllipseBounds::get
Ellipse_get(values, bValue) == At(values, bValue)

\* EllipseBounds::values
Ellipse_values(values) == [i \in 1 .. Len(values) |-> values[i]]

\* EllipseBounds::checkConsistency with the upper limit of the phi sector dropped
Ellipse_checkConsistency_noUpperPhi(values) ==
  /\ ~(\/ Ellipse_get(values, Ellipse_eMinR0) * Ellipse_get(values, Ellipse_eMaxR0) < 0
       \/ Ellipse_get(values, Ellipse_eMinR0) > Ellipse_get(values, Ellipse_eMaxR0))
  /\ ~(\/ Ellipse_get(values, Ellipse_eMinR1) * Ellipse_get(values, Ellipse_eMaxR1) < 0
       \/ Ellipse_get(values, Ellipse_eMinR1) > Ellipse_get(values, Ellipse_eMaxR1))
  /\ ~(Ellipse_get(values, Ellipse_eHalfPhiSector) < 0)
  /\ ~(Ellipse_get(values, Ellipse_eAveragePhi)
         # radian_sym(Ellipse_get(values, Ellipse_eAveragePhi)))

\* EllipseBounds::checkConsistency : TRUE when it returns without throwing
Ellipse_checkConsistency(values) ==
  /\ ~(\/ Ellipse_get(values, Ellipse_eMinR0) * Ellipse_get(values, Ellipse_eMaxR0) < 0
       \/ Ellipse_get(values, Ellipse_eMinR0) > Ellipse_get(values, Ellipse_eMaxR0))
  /\ ~(\/ Ellipse_get(values, Ellipse_eMinR1) * Ellipse_get(values, Ellipse_eMaxR1) < 0
       \/ Ellipse_get(values, Ellipse_eMinR1) > Ellipse_get(values, Ellipse_eMaxR1))
  /\ ~(\/ Ellipse_get(values, Ellipse_eHalfPhiSector) < 0
       \/ Ellipse_get(values, Ellipse_eHalfPhiSector) > PiU)
  /\ ~(Ellipse_get(values, Ellipse_eAveragePhi)
         # radian_sym(Ellipse_get(values, Ellipse_eAveragePhi)))

\* EllipseBounds(values) : bounding box first, then checkConsistency
Ellipse_fromArray(values) ==
  LET box == Rectangle_fromHalf(At(values, Ellipse_eMaxR0), At(values, Ellipse_eMaxR1))
  IN  [ok |-> box.ok /\ Ellipse_checkConsistency(values),
       m_values |-> values, m_boundingBox |-> box]

\* EllipseBounds(minR0, maxR0, minR1, maxR1, halfPhi, averagePhi)
Ellipse_fromScalars(minR0, maxR0, minR1, maxR1, halfPhi, averagePhi) ==
  LET values == <<minR0, maxR0, minR1, maxR1, halfPhi, averagePhi>>
      box == Rectangle_fromHalf(At(values, Ellipse_eMaxR0), At(values, Ellipse_eMaxR1))
  IN  [ok |-> box.ok /\ Ellipse_checkConsistency(values),
       m_values |-> values, m_boundingBox |-> box]

(* ----------------------------- RadialBounds ---------------------------- *)
Radial_eMinR == 0
Radial_eMaxR == 1
Radial_eAveragePhi == 2
Radial_eHalfPhiSector == 3

\* RadialBounds::get
Radial_get(values, bValue) == At(values, bValue)

\* RadialBounds::values
Radial_values(values) == [i \in 1 .. Len(values) |-> values[i]]

\* RadialBounds(minR, maxR, halfPhi, avgPhi) : the initialiser list fills
\* m_values in the order it is written
Radial_fromScalars(minR, maxR, halfPhi, avgPhi) ==
  [ok |-> TRUE,
   m_values |-> <<Abs(minR), Abs(maxR), Abs(halfPhi), radian_sym(avgPhi)>>,
   m_boundingBox |-> NoBox]

\* RadialBounds(values)
Radial_fromArray(values) ==
  [ok |-> TRUE, m_values |-> values, m_boundingBox |-> NoBox]

\* RadialBounds::coversFullAzimuth that never sees a full disc
Radial_coversFullAzimuth_never(values) == FALSE

\* RadialBounds::coversFullAzimuth
Radial_coversFullAzimuth(values) == Radial_get(values, Radial_eHalfPhiSector) = PiU

\* RadialBounds::shifted that forgets to subtract the average phi
Radial_shifted_noAverage(values, lposition) ==
  <<lposition[1], radian_sym(lposition[2])>>

\* RadialBounds::shifted
Radial_shifted(values, lposition) ==
  <<lposition[1], radian_sym(lposition[2] - Radial_get(values, Radial_eAveragePhi))>>

\* RadialBounds::inside
Radial_inside(values, lposition) ==
  BoundaryCheck_isInside(
    Radial_shifted(values, lposition),
    <<Radial_get(values, Radial_eMinR), 0 - Radial_get(values, Radial_eHalfPhiSector)>>,
    <<Radial_get(values, Radial_eMaxR), Radial_get(values, Radial_eHalfPhiSector)>>)

\* RadialBounds::distanceToBoundary applied to the point as given
Radial_distanceToBoundary_unshifted(values, lposition) ==
  BoundaryCheck_distance(
    lposition,
    <<Radial_get(values, Radial_eMinR), 0 - Radial_get(values, Radial_eHalfPhiSector)>>,
    <<Radial_get(values, Radial_eMaxR), Radial_get(values, Radial_eHalfPhiSector)>>)

\* RadialBounds::distanceToBoundary
Radial_distanceToBoundary(values, lposition) ==
  BoundaryCheck_distance(
    Radial_shifted(values, lposition),
    <<Radial_get(values, Radial_eMinR), 0 - Radial_get(values, Radial_eHalfPhiSector)>>,
    <<Radial_get(values, Radial_eMaxR), Radial_get(values, Radial_eHalfPhiSector)>>)

\* RadialBounds::insideRadialBounds
Radial_insideRadialBounds(values, R, tolerance) ==
  /\ R + tolerance > Radial_get(values, Radial_eMinR)
  /\ R - tolerance < Radial_get(values, Radial_eMaxR)

\* s_onSurfaceTolerance : lengths are counted in halves of it, so that one
\* length lies strictly between 0 and the tolerance
s_onSurfaceTolerance == 2

\* the numbers of a finite set in ascending order
RECURSIVE Ascending(_)
Ascending(S) ==
  IF S = {} THEN <<>>
  ELSE LET least == CHOOSE x \in S : \A y \in S : x <= y
       IN  <<least>> \o Ascending(S \ {least})

\* detail::VertexHelper::phiSegments : phiMin, the quarter points of the
\* circle and the reference angles that lie strictly between phiMin and
\* phiMax, in ascending order, and phiMax
VertexHelper_phiSegments(phiMin, phiMax, phiRefs) ==
  <<phiMin>>
    \o Ascending({q \in ((0 - PiU) .. PiU) \cup phiRefs : phiMin < q /\ q < phiMax})
    \o <<phiMax>>

\* detail::VertexHelper::createSegment : the lseg + addon points at radius r
\* that start at phi1 and step towards phi2 by (phi2 - phi1) / lseg.  A vertex
\* is <<r, a>> and stands for the polar point (r, a / lseg), so that a stays
\* an integer.
VertexHelper_createSegment(r, phi1, phi2, lseg, addon) ==
  [iphi \in 1 .. (lseg + addon) |-> <<r, phi1 * lseg + (iphi - 1) * (phi2 - phi1)>>]

\* the segments from..to of a bow, one after the other; step is 1 for the
\* upper bow and -1 for the lower one, the last segment gets the addon
RECURSIVE Bow(_, _, _, _, _, _, _)
Bow(r, phiSegs, from, to, step, lseg, addon) ==
  IF (to - from) * step < 0 THEN <<>>
  ELSE VertexHelper_createSegment(r, phiSegs[from], phiSegs[from + step], lseg,
                                  IF from = to THEN addon ELSE 0)
         \o Bow(r, phiSegs, from + step, to, step, lseg, addon)

\* RadialBounds::vertices with the two bows in the other order
Radial_vertices_upperFirst(values, lseg) ==
  LET rMin == Radial_get(values, Radial_eMinR)
      rMax == Radial_get(values, Radial_eMaxR)
      avgPhi == Radial_get(values, Radial_eAveragePhi)
      halfPhi == Radial_get(values, Radial_eHalfPhiSector)
      fullDisc == Radial_coversFullAzimuth(values)
      addon == IF fullDisc THEN 0 ELSE 1
      phiSegs == IF fullDisc
                 THEN VertexHelper_phiSegments(0 - PiU, PiU, {})
                 ELSE VertexHelper_phiSegments(avgPhi - halfPhi, avgPhi + halfPhi, {avgPhi})
      n == Len(phiSegs)
  IN  (IF rMin < s_onSurfaceTolerance /\ ~fullDisc THEN << <<0, 0>> >> ELSE <<>>)
        \o Bow(rMax, phiSegs, 1, n - 1, 1, lseg, addon)
        \o (IF rMin > 0 THEN Bow(rMin, phiSegs, n, 2, 0 - 1, lseg, addon) ELSE <<>>)

\* RadialBounds::vertices : the centre for a sector whose rMin is below the
\* on-surface tolerance, the lower bow at rMin from phi_max down to phi_min
\* if rMin > 0, then the upper bow at rMax from phi_min up to phi_max
Radial_vertices(values, lseg) ==
  LET rMin == Radial_get(values, Radial_eMinR)
      rMax == Radial_get(values, Radial_eMaxR)
      avgPhi == Radial_get(values, Radial_eAveragePhi)
      halfPhi == Radial_get(values, Radial_eHalfPhiSector)
      fullDisc == Radial_coversFullAzimuth(values)
      addon == IF fullDisc THEN 0 ELSE 1
      phiSegs == IF fullDisc
                 THEN VertexHelper_phiSegments(0 - PiU, PiU, {})
                 ELSE VertexHelper_phiSegments(avgPhi - halfPhi, avgPhi + halfPhi, {avgPhi})
      n == Len(phiSegs)
  IN  (IF rMin < s_onSurfaceTolerance /\ ~fullDisc THEN << <<0, 0>> >> ELSE <<>>)
        \o (IF rMin > 0 THEN Bow(rMin, phiSegs, n, 2, 0 - 1, lseg, addon) ELSE <<>>)
        \o Bow(rMax, phiSegs, 1, n - 1, 1, lseg, addon)

(* -------------------------- DiscTrapezoidBounds ------------------------ *)
DiscTrapezoid_eHalfLengthXminR == 0
DiscTrapezoid_eHalfLengthXmaxR == 1
DiscTrapezoid_eMinR == 2
DiscTrapezoid_eMaxR == 3
DiscTrapezoid_eAveragePhi == 4
DiscTrapezoid_eStereo == 5

\* DiscTrapezoidBounds::get
DiscTrapezoid_get(values, bValue) == At(values, bValue)

\* DiscTrapezoidBounds::values
DiscTrapezoid_values(values) == [i \in 1 .. Len(values) |-> values[i]]

\* DiscTrapezoidBounds(values)
DiscTrapezoid_fromArray(values) ==
  [ok |-> TRUE, m_values |-> values, m_boundingBox |-> NoBox]

\* DiscTrapezoidBounds::insideRadialBounds
DiscTrapezoid_insideRadialBounds(values, R, tolerance) ==
  /\ R + tolerance > DiscTrapezoid_get(values, DiscTrapezoid_eMinR)
  /\ R - tolerance < DiscTrapezoid_get(values, DiscTrapezoid_eMaxR)

\* DiscTrapezoidBounds::stereo : the values a read of m_stereo can give; a
\* member that was never written can give any
DiscTrapezoid_stereo(stereo) ==
  IF stereo = Indeterminate THEN Angs ELSE {stereo}

\* std::sqrt : the root is kept as its radicand; the root of a negative
\* number is not a number
Sqrt(x) == IF x < 0 THEN "NaN" ELSE <<"sqrt", x>>

\* std::asin(num / den) : kept as the quotient it is taken of
Asin(num, den) ==
  IF den = 0 THEN "division by zero"
  ELSE IF Abs(num) > Abs(den) THEN "NaN"
  ELSE <<"asin", num, den>>

\* DiscTrapezoidBounds::rCenter with the half length at maximum radius in
\* the second root
DiscTrapezoid_rCenter_hxmax(values) ==
  LET rmin == DiscTrapezoid_get(values, DiscTrapezoid_eMinR)
      rmax == DiscTrapezoid_get(values, DiscTrapezoid_eMaxR)
      hxmin == DiscTrapezoid_get(values, DiscTrapezoid_eHalfLengthXminR)
      hxmax == DiscTrapezoid_get(values, DiscTrapezoid_eHalfLengthXmaxR)
  IN  <<"0.5 * (hmin + hmax)", Sqrt(rmin * rmin - hxmin * hxmin),
        Sqrt(rmax * rmax - hxmax * hxmax)>>

\* DiscTrapezoidBounds::rCenter : half the sum of the two roots
DiscTrapezoid_rCenter(values) ==
  LET rmin == DiscTrapezoid_get(values, DiscTrapezoid_eMinR)
      rmax == DiscTrapezoid_get(values, DiscTrapezoid_eMaxR)
      hxmin == DiscTrapezoid_get(values, DiscTrapezoid_eHalfLengthXminR)
      hxmax == DiscTrapezoid_get(values, DiscTrapezoid_eHalfLengthXminR)
  IN  <<"0.5 * (hmin + hmax)", Sqrt(rmin * rmin - hxmin * hxmin),
        Sqrt(rmax * rmax - hxmax * hxmax)>>

\* DiscTrapezoidBounds::halfLengthY : half the difference of the two roots
DiscTrapezoid_halfLengthY(values) ==
  LET rmin == DiscTrapezoid_get(values, DiscTrapezoid_eMinR)
      rmax == DiscTrapezoid_get(values, DiscTrapezoid_eMaxR)
      hxmin == DiscTrapezoid_get(values, DiscTrapezoid_eHalfLengthXminR)
      hxmax == DiscTrapezoid_get(values, DiscTrapezoid_eHalfLengthXminR)
  IN  <<"0.5 * (hmax - hmin)", Sqrt(rmin * rmin - hxmin * hxmin),
        Sqrt(rmax * rmax - hxmax * hxmax)>>

\* DiscTrapezoidBounds::halfPhiSector : the larger of the two angles
DiscTrapezoid_halfPhiSector(values) ==
  <<"max",
    Asin(DiscTrapezoid_get(values, DiscTrapezoid_eHalfLengthXminR),
         DiscTrapezoid_get(values, DiscTrapezoid_eMinR)),
    Asin(DiscTrapezoid_get(values, DiscTrapezoid_eHalfLengthXmaxR),
         DiscTrapezoid_get(values, DiscTrapezoid_eMaxR))>>

(* ------------------------------ the state ------------------------------ *)
Init ==
  /\ shape = "None"
  /\ m_values = <<>>
  /\ m_min = <<>>
  /\ m_max = <<>>
  /\ m_boundingBox = NoBox
  /\ call = [op |-> "none", args |-> <<>>]
  /\ threw = FALSE
  /\ ret = FALSE
  /\ built = [op |-> "none", args |-> <<>>]
  /\ m_boundValues = <<>>
  /\ m_TrackList = <<>>
  /\ threads = <<>>
  /\ m_stereo = Indeterminate
  /\ m_state = "none"
  /\ hooks = <<>>

\* nothing has been constructed yet
Fresh == call.op = "none"

\* the outcome of constructing a RectangleBounds: r is the built object
BuildRectangle(op, args, r) ==
  /\ call' = [op |-> op, args |-> args]
  /\ threw' = ~r.ok
  /\ shape' = IF r.ok THEN "Rectangle" ELSE "None"
  /\ m_min' = IF r.ok THEN r.m_min ELSE <<>>
  /\ m_max' = IF r.ok THEN r.m_max ELSE <<>>
  /\ m_values' = <<>>
  /\ m_boundingBox' = NoBox
  /\ ret' = FALSE
  /\ built' = [op |-> op, args |-> args]
  /\ UNCHANGED aux

\* the outcome of constructing one of the array-backed bounds
BuildValues(kind, op, args, r) ==
  /\ call' = [op |-> op, args |-> args]
  /\ threw' = ~r.ok
  /\ shape' = IF r.ok THEN kind ELSE "None"
  /\ m_values' = IF r.ok THEN r.m_values ELSE <<>>
  /\ m_boundingBox' = IF r.ok THEN r.m_boundingBox ELSE NoBox
  /\ m_min' = <<>>
  /\ m_max' = <<>>
  /\ ret' = FALSE
  /\ built' = [op |-> op, args |-> args]
  /\ UNCHANGED aux

RectangleBoundsHalf ==
  /\ Fresh
  /\ \E halfX \in Lens, halfY \in Lens :
       BuildRectangle("RectangleBounds(halfX,halfY)", <<halfX, halfY>>,
                      Rectangle_fromHalf(halfX, halfY))

RectangleBoundsArray ==
  /\ Fresh
  /\ \E a \in Lens, b \in Lens, c \in Lens, d \in Lens :
       BuildRectangle("RectangleBounds(values)", <<a, b, c, d>>,
                      Rectangle_fromArray(<<a, b, c, d>>))

RectangleBoundsMinMax ==
  /\ Fresh
  /\ \E a \in Lens, b \in Lens, c \in Lens, d \in Lens :
       BuildRectangle("RectangleBounds(min,max)", <<a, b, c, d>>,
                      Rectangle_fromMinMax(<<a, b>>, <<c, d>>))

DiamondBoundsScalars ==
  /\ Fresh
  /\ \E a \in Lens, b \in Lens, c \in Lens, d \in Lens, e \in Lens :
       BuildValues("Diamond", "DiamondBounds(scalars)", <<a, b, c, d, e>>,
                   Diamond_fromScalars(a, b, c, d, e))

DiamondBoundsArray ==
  /\ Fresh
  /\ \E a \in Lens, b \in Lens, c \in Lens, d \in Lens, e \in Lens :
       BuildValues("Diamond", "DiamondBounds(values)", <<a, b, c, d, e>>,
                   Diamond_fromArray(<<a, b, c, d, e>>))

EllipseBoundsScalars ==
  /\ Fresh
  /\ \E a \in Lens, b \in Lens, c \in Lens, d \in Lens, h \in Angs, p \in Angs :
       BuildValues("Ellipse", "EllipseBounds(scalars)", <<a, b, c, d, h, p>>,
                   Ellipse_fromScalars(a, b, c, d, h, p))

EllipseBoundsArray ==
  /\ Fresh
  /\ \E a \in Lens, b \in Lens, c \in Lens, d \in Lens, h \in Angs, p \in Angs :
       BuildValues("Ellipse", "EllipseBounds(values)", <<a, b, c, d, h, p>>,
                   Ellipse_fromArray(<<a, b, c, d, h, p>>))

\* args are <<minR, maxR, halfPhi, avgPhi>>
RadialBoundsScalars ==
  /\ Fresh
  /\ \E minR \in Lens, maxR \in Lens, halfPhi \in Angs, avgPhi \in Angs :
       BuildValues("Radial", "RadialBounds(scalars)", <<minR, maxR, halfPhi, avgPhi>>,
                   Radial_fromScalars(minR, maxR, halfPhi, avgPhi))

\* args are the array, indexed by RadialBounds::BoundValues
RadialBoundsArray ==
  /\ Fresh
  /\ \E a \in Lens, b \in Lens, c \in Angs, d \in Angs :
       BuildValues("Radial", "RadialBounds(values)", <<a, b, c, d>>,
                   Radial_fromArray(<<a, b, c, d>>))

DiscTrapezoidBoundsArray ==
  /\ Fresh
  /\ \E a \in Lens, b \in Lens, c \in Lens, d \in Lens, p \in Angs, s \in Angs :
       BuildValues("DiscTrapezoid", "DiscTrapezoidBounds(values)", <<a, b, c, d, p, s>>,
                   DiscTrapezoid_fromArray(<<a, b, c, d, p, s>>))

\* SurfaceBounds::values of the live object (virtual dispatch on the shape)
Values ==
  CASE shape = "Rectangle" -> Rectangle_values(m_min, m_max)
    [] shape = "Diamond" -> Diamond_values(m_values)
    [] shape = "Ellipse" -> Ellipse_values(m_values)
    [] shape = "Radial" -> Radial_values(m_values)
    [] shape = "DiscTrapezoid" -> DiscTrapezoid_values(m_values)
    [] OTHER -> <<>>

\* a new object built by the array constructor from values() of the live one
Recreate ==
  /\ shape # "None"
  /\ LET v == Values
     IN  CASE shape = "Rectangle" ->
                BuildRectangle("Recreate", v, Rectangle_fromArray(v))
           [] shape = "Diamond" ->
                BuildValues("Diamond", "Recreate", v, Diamond_fromArray(v))
           [] shape = "Ellipse" ->
                BuildValues("Ellipse", "Recreate", v, Ellipse_fromArray(v))
           [] shape = "Radial" ->
                BuildValues("Radial", "Recreate", v, Radial_fromArray(v))
           [] OTHER ->
                BuildValues("DiscTrapezoid", "Recreate", v, DiscTrapezoid_fromArray(v))

\* RadialBounds::inside(lposition, BoundaryCheck(true)) at a polar point (r, phi)
Inside ==
  /\ shape = "Radial"
  /\ \E r \in 0 .. MaxLen, phi \in Angs :
       /\ call' = [op |-> "inside", args |-> <<r, phi>>]
       /\ ret' = Radial_inside(m_values, <<r, phi>>)
       /\ threw' = FALSE
       /\ UNCHANGED <<shape, m_values, m_min, m_max, m_boundingBox, built>>
       /\ UNCHANGED aux

(* ------------------ queries on a freshly built object ------------------ *)
\* a live object that has not been queried since it was built; a query
\* leaves the object as it is, so a later query meets the same object
JustBuilt == shape # "None" /\ call = built

\* coordinates of the points a rectangle is asked about
Coords == (0 - 1) .. (MaxLen + 1)

\* the object and the record of its construction are left alone
QueryFrame ==
  /\ threw' = FALSE
  /\ UNCHANGED <<shape, m_values, m_min, m_max, m_boundingBox, built>>
  /\ UNCHANGED aux

\* RadialBounds::distanceToBoundary at a polar point (r, phi)
DistanceToBoundary ==
  /\ JustBuilt
  /\ shape = "Radial"
  /\ \E r \in 0 .. MaxLen, phi \in Angs :
       /\ call' = [op |-> "distanceToBoundary", args |-> <<r, phi>>]
       /\ ret' = Radial_distanceToBoundary(m_values, <<r, phi>>)
       /\ QueryFrame

\* RectangleBounds::inside(lposition, BoundaryCheck(true))
RectangleInside ==
  /\ JustBuilt
  /\ shape = "Rectangle"
  /\ \E x \in Coords, y \in Coords :
       /\ call' = [op |-> "inside", args |-> <<x, y>>]
       /\ ret' = Rectangle_inside(m_min, m_max, <<x, y>>)
       /\ QueryFrame

\* RectangleBounds::distanceToBoundary
RectangleDistanceToBoundary ==
  /\ JustBuilt
  /\ shape = "Rectangle"
  /\ \E x \in Coords, y \in Coords :
       /\ call' = [op |-> "distanceToBoundary", args |-> <<x, y>>]
       /\ ret' = Rectangle_distanceToBoundary(m_min, m_max, <<x, y>>)
       /\ QueryFrame

\* the segment counts asked for
MaxSeg == 2

\* DiamondBounds::vertices(lseg)
DiamondVertices ==
  /\ JustBuilt
  /\ shape = "Diamond"
  /\ \E lseg \in 0 .. MaxSeg :
       /\ call' = [op |-> "vertices", args |-> <<lseg>>]
       /\ ret' = Diamond_vertices(m_values, lseg)
       /\ QueryFrame

\* RadialBounds::vertices(lseg)
RadialVertices ==
  /\ JustBuilt
  /\ shape = "Radial"
  /\ \E lseg \in 1 .. MaxSeg :
       /\ call' = [op |-> "vertices", args |-> <<lseg>>]
       /\ ret' = Radial_vertices(m_values, lseg)
       /\ QueryFrame

\* the tolerances handed to insideRadialBounds
Tolerances == {0, 1}

\* RadialBounds::insideRadialBounds(R, tolerance)
RadialInsideRadialBounds ==
  /\ JustBuilt
  /\ shape = "Radial"
  /\ \E R \in 0 .. MaxLen, tolerance \in Tolerances :
       /\ call' = [op |-> "insideRadialBounds", args |-> <<R, tolerance>>]
       /\ ret' = Radial_insideRadialBounds(m_values, R, tolerance)
       /\ QueryFrame

NextQuery ==
  \/ RectangleBoundsHalf
  \/ RectangleBoundsArray
  \/ RectangleBoundsMinMax
  \/ RadialBoundsScalars
  \/ RadialBoundsArray
  \/ DistanceToBoundary
  \/ RectangleInside
  \/ RectangleDistanceToBoundary
  \/ DiamondBoundsScalars
  \/ DiamondBoundsArray
  \/ DiamondVertices
  \/ RadialVertices
  \/ RadialInsideRadialBounds

\* constructions of rectangle, radial and diamond bounds, each followed by one
\* query
SpecQuery == Init /\ [][NextQuery]_vars

(* ---------------------- DoubleTrapezoidVolumeBounds --------------------- *)
\* enum BoundValues
bv_minHalfX == 0
bv_medHalfX == 1
bv_maxHalfX == 2
bv_halfY1 == 3
bv_halfY2 == 4
bv_halfZ == 5
bv_alpha1 == 6
bv_alpha2 == 7
bv_length == 8

\* half lengths of a volume
VolumeLens == 0 .. MaxLen

\* DoubleTrapezoidVolumeBounds(minhalex, medhalex, maxhalex, haley1, haley2,
\* halez) : the store of bv_length values; an opening angle is kept as the
\* direction <<dx, dy>> of the slanted edge it belongs to
DoubleTrapezoidVolume_fromScalars(minhalex, medhalex, maxhalex, haley1, haley2, halez) ==
  <<minhalex, medhalex, maxhalex, haley1, haley2, halez,
    <<medhalex - minhalex, haley1>>, <<medhalex - maxhalex, haley2>> >>

minHalflengthX(boundValues) == At(boundValues, bv_minHalfX)
medHalflengthX(boundValues) == At(boundValues, bv_medHalfX)
maxHalflengthX(boundValues) == At(boundValues, bv_maxHalfX)
halflengthY1(boundValues) == At(boundValues, bv_halfY1)
halflengthY2(boundValues) == At(boundValues, bv_halfY2)

\* halflengthZ reading the second half length in y
halflengthZ_halfY2(boundValues) == At(boundValues, bv_halfY2)

halflengthZ(boundValues) == At(boundValues, bv_halfZ)

\* the transforms a volume hands to decomposeToSurfaces
Transforms == {"nullptr", "transform"}

\* one boundary surface: its name, the kind of its bounds, the z coordinate
\* of its centre in the volume frame and the transform applied to it
Face(face, bounds, z, transformPtr) ==
  [face |-> face, bounds |-> bounds, z |-> z, transform |-> transformPtr]

\* DoubleTrapezoidVolumeBounds::decomposeToSurfaces : the two diamond faces
\* parallel to xy, at negative z first, then the four slanted rectangular
\* faces and the two rectangular faces parallel to zx
DoubleTrapezoidVolume_decomposeToSurfaces(boundValues, transformPtr) ==
  << Face("negativeFaceXY", "Diamond", 0 - halflengthZ(boundValues), transformPtr),
     Face("positiveFaceXY", "Diamond", halflengthZ(boundValues), transformPtr),
     Face("trapezoidFaceAlpha1", "Rectangle", 0, transformPtr),
     Face("trapezoidFaceBeta1", "Rectangle", 0, transformPtr),
     Face("trapezoidFaceAlpha2", "Rectangle", 0, transformPtr),
     Face("trapezoidFaceBeta2", "Rectangle", 0, transformPtr),
     Face("negativeFaceZX", "Rectangle", 0, transformPtr),
     Face("positiveFaceZX", "Rectangle", 0, transformPtr) >>

\* a volume bounds object was constructed (or the constructor threw); the
\* surface bounds variables are not touched
BuildVolume(kind, op, args, ok, boundValues) ==
  /\ call' = [op |-> op, args |-> args]
  /\ built' = [op |-> op, args |-> args]
  /\ threw' = ~ok
  /\ shape' = IF ok THEN kind ELSE "None"
  /\ m_boundValues' = IF ok THEN boundValues ELSE <<>>
  /\ ret' = FALSE
  /\ UNCHANGED <<m_values, m_min, m_max, m_boundingBox, m_TrackList, threads,
                 m_stereo, m_state, hooks>>

DoubleTrapezoidVolumeBoundsScalars ==
  /\ Fresh
  /\ \E minhalex \in VolumeLens, medhalex \in VolumeLens, maxhalex \in VolumeLens,
        haley1 \in VolumeLens, haley2 \in VolumeLens, halez \in VolumeLens :
       BuildVolume("DoubleTrapezoidVolume", "DoubleTrapezoidVolumeBounds(scalars)",
                   <<minhalex, medhalex, maxhalex, haley1, haley2, halez>>, TRUE,
                   DoubleTrapezoidVolume_fromScalars(minhalex, medhalex, maxhalex,
                                                     haley1, haley2, halez))

\* decomposeToSurfaces(transformPtr), as often as the caller likes
DecomposeToSurfaces ==
  /\ shape = "DoubleTrapezoidVolume"
  /\ \E transformPtr \in Transforms :
       /\ call' = [op |-> "decomposeToSurfaces", args |-> <<transformPtr>>]
       /\ ret' = DoubleTrapezoidVolume_decomposeToSurfaces(m_boundValues, transformPtr)
       /\ QueryFrame

(* ---------------------- CutoutCylinderVolumeBounds ---------------------- *)
\* enum BoundValues, in the order of the constructor's parameters
CutoutCylinder_eMinR == 0
CutoutCylinder_eMedR == 1
CutoutCylinder_eMaxR == 2
CutoutCylinder_eHalfLengthZ == 3
CutoutCylinder_eHalfLengthZcutout == 4

CutoutCylinder_get(values, bValue) == At(values, bValue)

\* CutoutCylinderVolumeBounds::checkConsistency that only looks at the signs
CutoutCylinder_checkConsistency_signsOnly(values) ==
  ~(\E i \in 1 .. Len(values) : values[i] < 0)

\* CutoutCylinderVolumeBounds::checkConsistency : TRUE when it returns
\* without throwing a std::logic_error
CutoutCylinder_checkConsistency(values) ==
  /\ ~(\E i \in 1 .. Len(values) : values[i] < 0)
  /\ CutoutCylinder_get(values, CutoutCylinder_eMinR)
       < CutoutCylinder_get(values, CutoutCylinder_eMedR)
  /\ CutoutCylinder_get(values, CutoutCylinder_eMedR)
       < CutoutCylinder_get(values, CutoutCylinder_eMaxR)

\* CutoutCylinderVolumeBounds::inside that takes the whole cylinder below
\* rmed as cut out
CutoutCylinder_inside_noChoke(values, r2, z2) ==
  /\ r2 >= 2 * CutoutCylinder_get(values, CutoutCylinder_eMedR)
  /\ r2 <= 2 * CutoutCylinder_get(values, CutoutCylinder_eMaxR)
  /\ Abs(z2) <= 2 * CutoutCylinder_get(values, CutoutCylinder_eHalfLengthZ)

\* CutoutCylinderVolumeBounds::inside for a point of transverse radius r2 / 2
\* and height z2 / 2 (the points lie on a grid of half units, so that they
\* fall between the radii as well as on them)
CutoutCylinder_inside(values, r2, z2) ==
  LET insideR == /\ r2 >= 2 * CutoutCylinder_get(values, CutoutCylinder_eMinR)
                 /\ r2 <= 2 * CutoutCylinder_get(values, CutoutCylinder_eMaxR)
      insideZ == Abs(z2) <= 2 * CutoutCylinder_get(values, CutoutCylinder_eHalfLengthZ)
      insideRInner == r2 < 2 * CutoutCylinder_get(values, CutoutCylinder_eMedR)
      insideZInner == Abs(z2) < 2 * CutoutCylinder_get(values, CutoutCylinder_eHalfLengthZcutout)
  IN  insideR /\ insideZ /\ ~(insideRInner /\ insideZInner)

\* CutoutCylinderVolumeBounds(rmin, rmed, rmax, hz, hzc)
CutoutCylinderVolumeBoundsScalars ==
  /\ Fresh
  /\ \E rmin \in Lens, rmed \in Lens, rmax \in Lens, hz \in Lens, hzc \in Lens :
       BuildVolume("CutoutCylinderVolume", "CutoutCylinderVolumeBounds(scalars)",
                   <<rmin, rmed, rmax, hz, hzc>>,
                   CutoutCylinder_checkConsistency(<<rmin, rmed, rmax, hz, hzc>>),
                   <<rmin, rmed, rmax, hz, hzc>>)

\* the points a cutout cylinder is asked about, in half units
HalfCoords == 0 .. (2 * MaxLen + 1)

\* inside({x, y, z}) with perp(x, y) = r2 / 2 and z = z2 / 2 or -z2 / 2
CutoutCylinderInside ==
  /\ JustBuilt
  /\ shape = "CutoutCylinderVolume"
  /\ \E r2 \in HalfCoords, az2 \in HalfCoords, sign \in {0 - 1, 1} :
       /\ call' = [op |-> "inside", args |-> <<r2, sign * az2>>]
       /\ ret' = CutoutCylinder_inside(m_boundValues, r2, sign * az2)
       /\ QueryFrame

NextVolume ==
  \/ DoubleTrapezoidVolumeBoundsScalars
  \/ DecomposeToSurfaces
  \/ CutoutCylinderVolumeBoundsScalars
  \/ CutoutCylinderInside

\* volume bounds: a construction followed by any number of queries
SpecVolume == Init /\ [][NextVolume]_vars

(* ------------------- concurrent calls on one RadialBounds --------------- *)
\* the threads that share the instance
Threads == {"t1", "t2"}

\* a thread that is not inside a call
Idle == [pc |-> "idle", op |-> "none", args |-> <<>>, local |-> <<>>, result |-> FALSE]

\* the points the threads ask about
ThreadPoints == {<<1, 0>>, <<MaxLen, 1>>, <<2, 0 - MaxAng>>}

\* a const member function that writes the shifted angle back into the
\* members
ConstMember_caching(values) ==
  [values EXCEPT ![Radial_eAveragePhi + 1] = 0]

\* the members after a const member function of RadialBounds has run: none
\* of them is mutable, so they are what they were
ConstMember(values) == values

\* the calls that take a local position start with shifted(lposition)
PointOps == {"inside", "distanceToBoundary"}

\* the result of a call that runs alone on bounds holding values
RunAlone(values, op, args) ==
  CASE op = "inside" -> Radial_inside(values, args)
    [] op = "distanceToBoundary" -> Radial_distanceToBoundary(values, args)
    [] op = "values" -> Radial_values(values)
    [] op = "get" -> Radial_get(values, args[1])
    [] OTHER -> FALSE

\* the other variables while the threads run
ThreadFrame ==
  /\ m_values' = ConstMember(m_values)
  /\ UNCHANGED <<shape, m_min, m_max, m_boundingBox, call, threw, ret, built,
                 m_boundValues, m_TrackList, m_stereo, m_state, hooks>>

\* the threads hold the bounds
Shared == threads # <<>>

\* the bounds are handed to the threads
Share ==
  /\ shape = "Radial"
  /\ threads = <<>>
  /\ threads' = [t \in Threads |-> Idle]
  /\ ThreadFrame

\* thread t enters inside or distanceToBoundary and evaluates
\* shifted(lposition)
CallPoint(t) ==
  /\ Shared
  /\ threads[t].pc = "idle"
  /\ \E op \in PointOps, lposition \in ThreadPoints :
       threads' = [threads EXCEPT ![t] =
                     [pc |-> "shifted", op |-> op, args |-> lposition,
                      local |-> Radial_shifted(m_values, lposition),
                      result |-> FALSE]]
  /\ ThreadFrame

\* thread t hands the shifted point and the box, read from the members now,
\* to the boundary check
FinishPoint(t) ==
  /\ Shared
  /\ threads[t].pc = "shifted"
  /\ LET boxMin == <<Radial_get(m_values, Radial_eMinR),
                     0 - Radial_get(m_values, Radial_eHalfPhiSector)>>
         boxMax == <<Radial_get(m_values, Radial_eMaxR),
                     Radial_get(m_values, Radial_eHalfPhiSector)>>
     IN  threads' = [threads EXCEPT ![t].pc = "done",
                       ![t].result =
                         IF threads[t].op = "inside"
                         THEN BoundaryCheck_isInside(threads[t].local, boxMin, boxMax)
                         ELSE BoundaryCheck_distance(threads[t].local, boxMin, boxMax)]
  /\ ThreadFrame

\* thread t calls values()
CallValues(t) ==
  /\ Shared
  /\ threads[t].pc = "idle"
  /\ threads' = [threads EXCEPT ![t] =
                   [pc |-> "done", op |-> "values", args |-> <<>>, local |-> <<>>,
                    result |-> Radial_values(m_values)]]
  /\ ThreadFrame

\* thread t calls get(bValue)
CallGet(t) ==
  /\ Shared
  /\ threads[t].pc = "idle"
  /\ \E bValue \in {Radial_eMinR, Radial_eAveragePhi} :
       threads' = [threads EXCEPT ![t] =
                     [pc |-> "done", op |-> "get", args |-> <<bValue>>, local |-> <<>>,
                      result |-> Radial_get(m_values, bValue)]]
  /\ ThreadFrame

\* thread t takes its result and is free for the next call
Return(t) ==
  /\ Shared
  /\ threads[t].pc = "done"
  /\ threads' = [threads EXCEPT ![t] = Idle]
  /\ ThreadFrame

NextThreads ==
  \/ RadialBoundsScalars
  \/ Share
  \/ \E t \in Threads : CallPoint(t)
  \/ \E t \in Threads : FinishPoint(t)
  \/ \E t \in Threads : CallValues(t)
  \/ \E t \in Threads : CallGet(t)
  \/ \E t \in Threads : Return(t)

\* one RadialBounds instance queried by the threads in any interleaving
SpecThreads == Init /\ [][NextThreads]_vars

(* -------------------------- MultiTrackParameters ------------------------ *)
\* the weights of the components, in tenths
MaxWeight == 3
Weights == 1 .. MaxWeight

\* the most components one container is given, and the most it is
\* constructed from
MaxTracks == 4
MaxInitial == 2

\* a component put behind all the others, whatever its weight
MultiTrack_insert_atEnd(trackList, weight, par) ==
  Append(trackList, <<weight, par>>)

\* the track list with the component (weight, par) put in front of the first
\* component of smaller weight
MultiTrack_insert(trackList, weight, par) ==
  LET before == {i \in 1 .. Len(trackList) : trackList[i][1] >= weight}
      n == Cardinality(before)
  IN  SubSeq(trackList, 1, n) \o << <<weight, par>> >> \o SubSeq(trackList, n + 1, Len(trackList))

\* the track list made of the first n pairs of the list the constructor is
\* given; the parameters of a component are named by the place it was
\* supplied at
RECURSIVE MultiTrack_fromList(_, _)
MultiTrack_fromList(list, n) ==
  IF n = 0 THEN <<>>
  ELSE MultiTrack_insert(MultiTrack_fromList(list, n - 1), list[n], n)

\* MultiTrackParameters::size
MultiTrack_size(trackList) == Len(trackList)

\* the other variables while a container is built or appended to
MultiTrackFrame ==
  /\ threw' = FALSE
  /\ ret' = FALSE
  /\ UNCHANGED <<m_values, m_min, m_max, m_boundingBox, m_boundValues, threads,
                 m_stereo, m_state, hooks>>

\* MultipleTrackParameters<T>({{weight, parameters}, ...}) ; args are the
\* weights in the order they are supplied
MultiTrackParametersList ==
  /\ Fresh
  /\ \E n \in 1 .. MaxInitial :
       \E list \in [1 .. n -> Weights] :
         /\ call' = [op |-> "MultiTrackParameters(list)", args |-> list]
         /\ built' = [op |-> "MultiTrackParameters(list)", args |-> list]
         /\ shape' = "MultiTrack"
         /\ m_TrackList' = MultiTrack_fromList(list, n)
  /\ MultiTrackFrame

\* append(weight, parameters) ; args become the weights supplied so far, this
\* one last
AppendTrack ==
  /\ shape = "MultiTrack"
  /\ Len(call.args) < MaxTracks
  /\ \E weight \in Weights :
       /\ call' = [op |-> "append", args |-> Append(call.args, weight)]
       /\ m_TrackList' = MultiTrack_insert(m_TrackList, weight, Len(call.args) + 1)
  /\ UNCHANGED <<shape, built>>
  /\ MultiTrackFrame

NextMulti ==
  \/ MultiTrackParametersList
  \/ AppendTrack

\* a container of weighted track parameters: a construction, then appends
SpecMulti == Init /\ [][NextMulti]_vars

(* --------------------- queries of DiscTrapezoidBounds ------------------- *)
\* DiscTrapezoidBounds::rCenter()
RCenter ==
  /\ JustBuilt
  /\ shape = "DiscTrapezoid"
  /\ call' = [op |-> "rCenter", args |-> <<>>]
  /\ ret' = DiscTrapezoid_rCenter(m_values)
  /\ QueryFrame

\* DiscTrapezoidBounds::halfLengthY()
HalfLengthY ==
  /\ JustBuilt
  /\ shape = "DiscTrapezoid"
  /\ call' = [op |-> "halfLengthY", args |-> <<>>]
  /\ ret' = DiscTrapezoid_halfLengthY(m_values)
  /\ QueryFrame

\* DiscTrapezoidBounds::halfPhiSector()
HalfPhiSector ==
  /\ JustBuilt
  /\ shape = "DiscTrapezoid"
  /\ call' = [op |-> "halfPhiSector", args |-> <<>>]
  /\ ret' = DiscTrapezoid_halfPhiSector(m_values)
  /\ QueryFrame

\* DiscTrapezoidBounds::insideRadialBounds(R, tolerance)
DiscTrapezoidInsideRadialBounds ==
  /\ JustBuilt
  /\ shape = "DiscTrapezoid"
  /\ \E R \in 0 .. MaxLen, tolerance \in Tolerances :
       /\ call' = [op |-> "insideRadialBounds", args |-> <<R, tolerance>>]
       /\ ret' = DiscTrapezoid_insideRadialBounds(m_values, R, tolerance)
       /\ QueryFrame

\* DiscTrapezoidBounds::stereo()
Stereo ==
  /\ JustBuilt
  /\ shape = "DiscTrapezoid"
  /\ \E value \in DiscTrapezoid_stereo(m_stereo) :
       /\ call' = [op |-> "stereo", args |-> <<>>]
       /\ ret' = value
       /\ QueryFrame

NextDisc ==
  \/ DiscTrapezoidBoundsArray
  \/ RCenter
  \/ HalfLengthY
  \/ HalfPhiSector
  \/ DiscTrapezoidInsideRadialBounds
  \/ Stereo

\* a DiscTrapezoidBounds: a construction followed by one query
SpecDisc == Init /\ [][NextDisc]_vars

(* --------------------------- FiniteStateMachine ------------------------- *)
\* States... of the derived machine, in the order they are listed, and the
\* events it is sent
StatesList == <<"A", "B">>
Events == {"e1", "e2"}

\* struct Terminated and using StateVariant = std::variant<Terminated, States...>
Terminated == "Terminated"
StateVariant == {Terminated} \cup {StatesList[i] : i \in 1 .. Len(StatesList)}

\* an empty event_return
nullopt == "nullopt"

\* the derived classes: each is the set of pairs <<state, event>> it defines
\* an on_event handler for; every derived class here defines on_exit and
\* on_enter for every state and no on_process
DerivedClasses == SUBSET (StateVariant \X Events)

\* the call of a hook of the derived class: the state and the event it is
\* handed, the state m_state holds while it runs and what it returns
Hook(hook, state, event, current, returned) ==
  [hook |-> hook, state |-> state, event |-> event, current |-> current,
   returned |-> returned]

\* a default constructor that leaves the variant at its first alternative
FiniteStateMachine_default_firstAlternative == Terminated

\* FiniteStateMachine() : the first of States...
FiniteStateMachine_default == StatesList[1]

\* setState that replaces m_state before it visits it for on_exit
setState_replaceFirst(current, state) ==
  [m_state |-> state,
   hooks |-> <<Hook("on_exit", state, "none", state, "void"),
               Hook("on_enter", state, "none", state, "void")>>]

\* setState(state) : on_exit on the visited m_state, m_state = state,
\* on_enter on std::get<State>(m_state)
setState(current, state) ==
  LET exited == [m_state |-> current,
                 hooks |-> <<Hook("on_exit", current, "none", current, "void")>>]
      replaced == [exited EXCEPT !.m_state = state]
  IN  [replaced EXCEPT
         !.hooks = Append(@, Hook("on_enter", replaced.m_state, "none",
                                 replaced.m_state, "void"))]

\* process_event that returns an empty optional when the derived class has
\* no handler
process_event_ignoreUnhandled(current, event, derived, s2) ==
  IF <<current, event>> \in derived
  THEN [new_state |-> s2, hooks |-> <<Hook("on_event", current, event, current, s2)>>]
  ELSE [new_state |-> nullopt, hooks |-> <<>>]

\* process_event(event) : what on_event returns (s2) when the derived class
\* defines it for the visited state and the event, Terminated otherwise
process_event(current, event, derived, s2) ==
  IF <<current, event>> \in derived
  THEN [new_state |-> s2, hooks |-> <<Hook("on_event", current, event, current, s2)>>]
  ELSE [new_state |-> Terminated, hooks |-> <<>>]

\* dispatch that sets the state whatever process_event returned, keeping the
\* current state for an empty optional
dispatch_alwaysSetState(current, event, derived, s2) ==
  LET new_state == process_event(current, event, derived, s2)
      set == setState(current,
                      IF new_state.new_state = nullopt THEN current
                      ELSE new_state.new_state)
  IN  [m_state |-> set.m_state, hooks |-> new_state.hooks \o set.hooks]

\* dispatch(event) : process_event, then setState if it returned a state
dispatch(current, event, derived, s2) ==
  LET new_state == process_event(current, event, derived, s2)
  IN  IF new_state.new_state # nullopt
      THEN LET set == setState(current, new_state.new_state)
           IN  [m_state |-> set.m_state, hooks |-> new_state.hooks \o set.hooks]
      ELSE [m_state |-> current, hooks |-> new_state.hooks]

\* terminated()
terminated(state) == state = Terminated

\* the other variables while a machine is built or run
FsmFrame ==
  /\ threw' = FALSE
  /\ ret' = FALSE
  /\ UNCHANGED <<m_values, m_min, m_max, m_boundingBox, m_boundValues,
                 m_TrackList, threads, m_stereo>>

\* Derived() through FiniteStateMachine()
FiniteStateMachineDefault ==
  /\ Fresh
  /\ \E derived \in DerivedClasses :
       /\ call' = [op |-> "FiniteStateMachine()", args |-> <<derived>>]
       /\ built' = [op |-> "FiniteStateMachine()", args |-> <<derived>>]
  /\ shape' = "FiniteStateMachine"
  /\ m_state' = FiniteStateMachine_default
  /\ hooks' = <<>>
  /\ FsmFrame

\* Derived(state) through FiniteStateMachine(StateVariant state)
FiniteStateMachineState ==
  /\ Fresh
  /\ \E derived \in DerivedClasses, state \in StateVariant :
       /\ call' = [op |-> "FiniteStateMachine(state)", args |-> <<derived, state>>]
       /\ built' = [op |-> "FiniteStateMachine(state)", args |-> <<derived, state>>]
       /\ m_state' = state
  /\ shape' = "FiniteStateMachine"
  /\ hooks' = <<>>
  /\ FsmFrame

\* setState(state) called from outside
SetState ==
  /\ shape = "FiniteStateMachine"
  /\ \E state \in StateVariant :
       LET set == setState(m_state, state)
       IN  /\ call' = [op |-> "setState", args |-> <<state>>]
           /\ m_state' = set.m_state
           /\ hooks' = set.hooks
  /\ UNCHANGED <<shape, built>>
  /\ FsmFrame

\* dispatch(event); s2 is what the handler, if there is one, returns
Dispatch ==
  /\ shape = "FiniteStateMachine"
  /\ \E event \in Events, s2 \in StateVariant \cup {nullopt} :
       LET done == dispatch(m_state, event, built.args[1], s2)
       IN  /\ call' = [op |-> "dispatch", args |-> <<event>>]
           /\ m_state' = done.m_state
           /\ hooks' = done.hooks
  /\ UNCHANGED <<shape, built>>
  /\ FsmFrame

\* getState() = state : a caller assigning through the StateVariant& that the
\* non-const getState() returns; no hook runs
GetStateAssign ==
  /\ shape = "FiniteStateMachine"
  /\ \E state \in StateVariant :
       /\ call' = [op |-> "getState", args |-> <<state>>]
       /\ m_state' = state
  /\ hooks' = <<>>
  /\ UNCHANGED <<shape, built>>
  /\ FsmFrame

NextFsm ==
  \/ FiniteStateMachineDefault
  \/ FiniteStateMachineState
  \/ SetState
  \/ Dispatch
  \/ GetStateAssign

\* a machine of one derived class: a construction, then state changes
SpecFsm == Init /\ [][NextFsm]_vars

(* ------------------------- the bounds life cycle ------------------------ *)
Next ==
  \/ RectangleBoundsHalf
  \/ RectangleBoundsArray
  \/ RectangleBoundsMinMax
  \/ DiamondBoundsScalars
  \/ DiamondBoundsArray
  \/ EllipseBoundsScalars
  \/ EllipseBoundsArray
  \/ RadialBoundsScalars
  \/ RadialBoundsArray
  \/ DiscTrapezoidBoundsArray
  \/ Recreate
  \/ Inside

Spec == Init /\ [][Next]_vars

(* ------------------------------ properties ----------------------------- *)
IsRectangleCtor == call.op \in {"RectangleBounds(halfX,halfY)",
                                "RectangleBounds(values)",
                                "RectangleBounds(min,max)"}
IsDiamondCtor == call.op \in {"DiamondBounds(scalars)", "DiamondBounds(values)"}
IsEllipseCtor == call.op \in {"EllipseBounds(scalars)", "EllipseBounds(values)"}

\* C1: each of the three RectangleBounds constructors throws exactly when the
\* resulting corners have min.x > max.x or min.y > max.y; a negative half
\* length is rejected by the symmetric constructor; no RectangleBounds object
\* has min > max on an axis.
C1_RectangleRejectsDegenerate ==
  /\ call.op = "RectangleBounds(halfX,halfY)" =>
       /\ threw <=> (0 - call.args[1] > call.args[1] \/ 0 - call.args[2] > call.args[2])
       /\ (call.args[1] < 0 \/ call.args[2] < 0) => threw
  /\ call.op \in {"RectangleBounds(values)", "RectangleBounds(min,max)"} =>
       (threw <=> (call.args[1] > call.args[3] \/ call.args[2] > call.args[4]))
  /\ IsRectangleCtor => (threw <=> shape = "None")
  /\ shape = "Rectangle" => (m_min[1] <= m_max[1] /\ m_min[2] <= m_max[2])

\* a corner pair that is fine in x and inverted in y was rejected
C1_Witness ==
  /\ call.op = "RectangleBounds(min,max)"
  /\ call.args[1] <= call.args[3]
  /\ call.args[2] > call.args[4]
  /\ threw

\* the parameters of a diamond are acceptable
DiamondValid(v) ==
  /\ \A i \in 1 .. 5 : v[i] >= 0
  /\ v[1] <= v[2]
  /\ v[3] <= v[2]

\* C2: both DiamondBounds constructors throw when a half length is negative or
\* an end half width exceeds the mid half width; every DiamondBounds object
\* has all parameters >= 0 and both end half widths <= the mid half width.
C2_DiamondRejectsInvalid ==
  /\ (IsDiamondCtor /\ ~DiamondValid(call.args)) => threw
  /\ shape = "Diamond" => DiamondValid(m_values)

\* an axis of an ellipse has radii of opposite sign or out of order
EllipseAxisBad(lo, hi) == (lo < 0 /\ hi > 0) \/ (lo > 0 /\ hi < 0) \/ lo > hi

\* C3: both EllipseBounds constructors throw, and leave no object, when an
\* axis has radii of opposite sign or minR > maxR, when halfPhiSector is
\* outside [0, pi], or when averagePhi is not its own normalised value.
C3_EllipseRejectsInvalid ==
  (IsEllipseCtor /\ (\/ EllipseAxisBad(call.args[1], call.args[2])
                     \/ EllipseAxisBad(call.args[3], call.args[4])
                     \/ call.args[5] < 0
                     \/ call.args[5] > PiU
                     \/ call.args[6] <= 0 - PiU
                     \/ call.args[6] > PiU))
    => (threw /\ shape = "None" /\ m_values = <<>>)

\* a phi sector wider than pi, everything else in order, was rejected
C3_Witness ==
  /\ call.op = "EllipseBounds(scalars)"
  /\ call.args = <<0, 1, 0, 1, PiU + 1, 0>>
  /\ threw

\* C4: every EllipseBounds object has minR0, maxR0, minR1, maxR1 >= 0.
C4_EllipseRadiiNonNegative ==
  shape = "Ellipse" => \A i \in 1 .. 4 : m_values[i] >= 0

\* C5: after RadialBounds(minR, maxR, halfPhi, avgPhi), coversFullAzimuth()
\* holds exactly when halfPhi was pi, and get(eHalfPhiSector) is the halfPhi
\* that was passed in (a full disc 5..15 with halfPhi = pi covers the azimuth).
C5_RadialCoversFullAzimuth ==
  call.op = "RadialBounds(scalars)" =>
    /\ Radial_coversFullAzimuth(m_values) <=> (call.args[3] = PiU)
    /\ call.args[3] >= 0 => Radial_get(m_values, Radial_eHalfPhiSector) = call.args[3]

\* C6: every RadialBounds object stores minR <= maxR.
C6_RadialOrdered ==
  shape = "Radial" =>
    Radial_get(m_values, Radial_eMinR) <= Radial_get(m_values, Radial_eMaxR)

\* C7: the average phi stored in a RadialBounds or DiscTrapezoidBounds object
\* is its own normalised value, i.e. lies in (-pi, pi].
C7_AveragePhiNormalised ==
  /\ shape = "Radial" =>
       Radial_get(m_values, Radial_eAveragePhi)
         = radian_sym(Radial_get(m_values, Radial_eAveragePhi))
  /\ shape = "DiscTrapezoid" =>
       DiscTrapezoid_get(m_values, DiscTrapezoid_eAveragePhi)
         = radian_sym(DiscTrapezoid_get(m_values, DiscTrapezoid_eAveragePhi))

\* C8: for RadialBounds, DiamondBounds and EllipseBounds the object built
\* from named scalars has the state of the object built from the array that
\* holds the same parameters in the order of the BoundValues enumeration.
C8_ScalarsEqualArray ==
  /\ call.op = "RadialBounds(scalars)" =>
       LET a == Radial_fromArray(<<call.args[1], call.args[2], call.args[4], call.args[3]>>)
       IN  (~threw /\ a.ok) => m_values = a.m_values
  /\ call.op = "DiamondBounds(scalars)" =>
       LET a == Diamond_fromArray(call.args)
       IN  (~threw /\ a.ok) => (m_values = a.m_values /\ m_boundingBox = a.m_boundingBox)
  /\ call.op = "EllipseBounds(scalars)" =>
       LET a == Ellipse_fromArray(call.args)
       IN  (~threw /\ a.ok) => (m_values = a.m_values /\ m_boundingBox = a.m_boundingBox)

\* C9: building a new object from values() of a live object of any shape
\* succeeds, and values() of the new object is that of the old one.
C9_RoundTrip ==
  [][call'.op = "Recreate" => (~threw' /\ shape' = shape /\ Values' = Values)]_vars

\* a rectangle that is not symmetric in x and y has been recreated
C9_Witness ==
  /\ call.op = "Recreate"
  /\ shape = "Rectangle"
  /\ m_min[2] # m_max[1]

\* C10: with zero tolerance RadialBounds::inside((r, phi)) holds exactly when
\* minR <= r <= maxR and the normalised phi - avgPhi is within
\* [-halfPhiSector, halfPhiSector]; a sector of half width pi/2 about
\* avgPhi = 0 rejects phi = pi at a radius strictly between minR and maxR.
C10_RadialInside ==
  (call.op = "inside" /\ shape = "Radial") =>
    LET r == call.args[1]
        phi == call.args[2]
        minR == Radial_get(m_values, Radial_eMinR)
        maxR == Radial_get(m_values, Radial_eMaxR)
        avgPhi == Radial_get(m_values, Radial_eAveragePhi)
        halfPhi == Radial_get(m_values, Radial_eHalfPhiSector)
        dphi == CHOOSE d \in (1 - PiU) .. PiU :
                  \E k \in (0 - MaxAng - 2) .. (MaxAng + 2) : phi - avgPhi = d + 2 * PiU * k
    IN  /\ ret <=> (minR <= r /\ r <= maxR /\ 0 - halfPhi <= dphi /\ dphi <= halfPhi)
        /\ (avgPhi = 0 /\ 2 * halfPhi = PiU /\ phi = PiU /\ minR < r /\ r < maxR) => ~ret

\* the sector 1..3 of half width pi/2 about 0 was asked about (2, pi) and said no
C10_Witness ==
  /\ call.op = "inside"
  /\ shape = "Radial"
  /\ Radial_get(m_values, Radial_eMinR) = 1
  /\ Radial_get(m_values, Radial_eMaxR) = 3
  /\ Radial_get(m_values, Radial_eAveragePhi) = 0
  /\ 2 * Radial_get(m_values, Radial_eHalfPhiSector) = PiU
  /\ call.args = <<2, PiU>>
  /\ ~ret

BuiltSymmetric == shape = "Rectangle" /\ built.op = "RectangleBounds(halfX,halfY)"

\* C12: for RectangleBounds(halfX, halfY) and zero tolerance the origin is
\* inside, a point (x, 0) with x > halfX is not, and its distance to the
\* boundary is x - halfX (compared here as squares).
C12_SymmetricRectangle ==
  /\ (BuiltSymmetric /\ call.op = "inside" /\ call.args = <<0, 0>>) => ret
  /\ (BuiltSymmetric /\ call.op = "inside"
        /\ call.args[2] = 0 /\ call.args[1] > built.args[1]) => ~ret
  /\ (BuiltSymmetric /\ call.op = "distanceToBoundary"
        /\ call.args[2] = 0 /\ call.args[1] > built.args[1]) =>
       ret = (call.args[1] - built.args[1]) * (call.args[1] - built.args[1])

\* RectangleBounds(2, 1) was asked for the distance of (4, 0): it is 2
C12_Witness ==
  /\ BuiltSymmetric
  /\ built.args = <<2, 1>>
  /\ call.op = "distanceToBoundary"
  /\ call.args = <<4, 0>>
  /\ ret = 4

\* twice the signed area of the triangle a, b, c: positive when c lies to
\* the left of the line from a to b
Orient(a, b, c) == (b[1] - a[1]) * (c[2] - a[2]) - (b[2] - a[2]) * (c[1] - a[1])

\* the closed segments a b and c d cross in a point interior to both
Crosses(a, b, c, d) ==
  /\ Orient(a, b, c) * Orient(a, b, d) < 0
  /\ Orient(c, d, a) * Orient(c, d, b) < 0

\* the point after the i-th one on the closed polygon through the points of p
After(p, i) == p[(i % Len(p)) + 1]

\* twice the signed area enclosed by the closed polygon through a hexagon p
TwiceArea(p) ==
  LET t(i) == p[i][1] * After(p, i)[2] - After(p, i)[1] * p[i][2]
  IN  t(1) + t(2) + t(3) + t(4) + t(5) + t(6)

\* no two edges of the closed polygon through the points of p cross
SimplePolygon(p) ==
  \A i \in 1 .. Len(p), j \in 1 .. Len(p) :
    i < j => ~Crosses(p[i], After(p, i), p[j], After(p, j))

\* C13: for a valid DiamondBounds vertices(lseg) returns 6 points, the same
\* for every lseg, counter-clockwise, and the polygon closed by appending
\* the first point does not cross itself.
C13_DiamondVertices ==
  (call.op = "vertices" /\ shape = "Diamond"
     /\ (built.op = "DiamondBounds(scalars)" \/ Diamond_checkConsistency(m_values))) =>
    /\ Len(ret) = 6
    /\ \A lseg \in 0 .. MaxSeg + 1 : ret = Diamond_vertices(m_values, lseg)
    /\ TwiceArea(ret) >= 0
    /\ SimplePolygon(ret)

\* DiamondBounds(1, 3, 1, 2, 2) was asked for its vertices with two segments
C13_Witness ==
  /\ call = [op |-> "vertices", args |-> <<2>>]
  /\ shape = "Diamond"
  /\ built = [op |-> "DiamondBounds(scalars)", args |-> <<1, 3, 1, 2, 2>>]
  /\ Len(ret) = 6
  /\ TwiceArea(ret) > 0

\* the names and kinds of the faces of a decomposition, in order
FaceOrder(faces) == [i \in 1 .. Len(faces) |-> <<faces[i].face, faces[i].bounds>>]

BuiltRadialValues ==
  Radial_fromScalars(built.args[1], built.args[2], built.args[3], built.args[4]).m_values

C16_BoundingBoxEncloses ==
  /\ shape = "Diamond" =>
       /\ \A e \in {Diamond_eHalfLengthXnegY, Diamond_eHalfLengthXzeroY,
                    Diamond_eHalfLengthXposY} :
            m_boundingBox.m_max[1] >= Diamond_get(m_values, e)
       /\ \A e \in {Diamond_eHalfLengthYneg, Diamond_eHalfLengthYpos} :
            m_boundingBox.m_max[2] >= Diamond_get(m_values, e)
  /\ shape = "Ellipse" =>
       /\ m_boundingBox.m_max[1] >= Ellipse_get(m_values, Ellipse_eMaxR0)
       /\ m_boundingBox.m_max[2] >= Ellipse_get(m_values, Ellipse_eMaxR1)

\* C17: CutoutCylinderVolumeBounds(rmin, rmed, rmax, hz, hzc) throws whenever
\* one of the five parameters is negative or the radii are not ordered
\* rmin < rmed < rmax.
C17_CutoutCylinderRejects ==
  call.op = "CutoutCylinderVolumeBounds(scalars)" =>
    ((\/ \E i \in 1 .. 5 : call.args[i] < 0
      \/ ~(call.args[1] < call.args[2] /\ call.args[2] < call.args[3]))
       => (threw /\ shape = "None"))

\* non-negative parameters with rmin and rmed swapped were rejected
C17_Witness ==
  /\ call = [op |-> "CutoutCylinderVolumeBounds(scalars)", args |-> <<2, 1, 3, 3, 2>>]
  /\ threw

\* the bounds ccvb(5, 10, 15, 30, 25) of the unit test, in units in which
\* they read (1, 2, 3, 3, 2): the order of all radii, heights and tested
\* points is kept
TestedCutoutCylinder == <<1, 2, 3, 3, 2>>

\* the radii 0, 3, 7, 13, 17 and the heights 0, 23, 27, 35 of the tested
\* points, in half units of the same scale
TestedR2 == {0, 1, 3, 5, 7}
TestedZ2 == {0, 3, 5, 7}

\* what the unit test expects of inside at a tested point
TestedInside(r2, z2) ==
  \/ r2 = 5 /\ Abs(z2) <= 5
  \/ r2 = 3 /\ Abs(z2) = 5

\* C18: a point of transverse radius r and height z is inside
\* CutoutCylinderVolumeBounds(rmin, rmed, rmax, hz, hzc) exactly when
\* |z| <= hz, r <= rmax and either r >= rmed, or r >= rmin and |z| >= hzc;
\* on the bounds and points of the unit test that is what the test expects.
C18_CutoutCylinderInside ==
  (call.op = "inside" /\ shape = "CutoutCylinderVolume") =>
    LET r2 == call.args[1]
        z2 == call.args[2]
        rmin == built.args[1]
        rmed == built.args[2]
        rmax == built.args[3]
        hz == built.args[4]
        hzc == built.args[5]
    IN  /\ ret <=> /\ Abs(z2) <= 2 * hz
                   /\ r2 <= 2 * rmax
                   /\ \/ r2 >= 2 * rmed
                      \/ r2 >= 2 * rmin /\ Abs(z2) >= 2 * hzc
        /\ (built.args = TestedCutoutCylinder /\ r2 \in TestedR2 /\ Abs(z2) \in TestedZ2)
             => (ret <=> TestedInside(r2, z2))

\* the tested bounds were asked about the tested point (7, 0, -27), in the
\* choke between rmin and rmed beyond the cutout, and answered inside
C18_Witness ==
  /\ call = [op |-> "inside", args |-> <<3, 0 - 5>>]
  /\ shape = "CutoutCylinderVolume"
  /\ built.args = TestedCutoutCylinder
  /\ ret = TRUE

\* C19: after the construction from a list and any appends, size() is the
\* number of components supplied, getTrackList() holds them in non-increasing
\* order of weight, and each supplied component is in it with its weight.
C19_MultiTrackSorted ==
  shape = "MultiTrack" =>
    /\ MultiTrack_size(m_TrackList) = Len(call.args)
    /\ \A i \in 1 .. Len(m_TrackList) - 1 : m_TrackList[i][1] >= m_TrackList[i + 1][1]
    /\ \A k \in 1 .. Len(call.args) :
         \E i \in 1 .. Len(m_TrackList) : m_TrackList[i] = <<call.args[k], k>>

\* constructed from the weights 1 and 3 and appended the weight 2, as the
\* unit test does with 0.1, 0.6 and 0.3: the list reads 3, 2, 1
C19_Witness ==
  /\ shape = "MultiTrack"
  /\ built.args = <<1, 3>>
  /\ call = [op |-> "append", args |-> <<1, 3, 2>>]
  /\ m_TrackList = << <<3, 2>>, <<2, 3>>, <<1, 1>> >>

\* the vertices at the places from .. to of v lie at radius r and their angles
\* move from the side of lo to the side of hi, without turning back
IsArc(v, from, to, r, lo, hi) ==
  /\ \A i \in from .. to : v[i][1] = r
  /\ \A i \in from .. (to - 1) : (v[i + 1][2] - v[i][2]) * (hi - lo) >= 0

\* the number of centre points in front of the bows
CentrePoints ==
  IF Radial_get(m_values, Radial_eMinR) < s_onSurfaceTolerance
       /\ ~Radial_coversFullAzimuth(m_values)
  THEN 1 ELSE 0

\* the angles the bows run between, in the units of the vertices
VerticesPhiMin ==
  call.args[1] * (IF Radial_coversFullAzimuth(m_values) THEN 0 - PiU
                  ELSE Radial_get(m_values, Radial_eAveragePhi)
                         - Radial_get(m_values, Radial_eHalfPhiSector))
VerticesPhiMax ==
  call.args[1] * (IF Radial_coversFullAzimuth(m_values) THEN PiU
                  ELSE Radial_get(m_values, Radial_eAveragePhi)
                         + Radial_get(m_values, Radial_eHalfPhiSector))

VerticesAt(r) == {i \in 1 .. Len(ret) : ret[i][1] = r}

C23_CentreExcludesInnerArc ==
  (call.op = "vertices" /\ shape = "Radial"
     /\ Radial_get(m_values, Radial_eMaxR) # 0
     /\ Radial_get(m_values, Radial_eMinR) # Radial_get(m_values, Radial_eMaxR)) =>
    ~(/\ VerticesAt(0) # {}
      /\ Radial_get(m_values, Radial_eMinR) # 0
      /\ VerticesAt(Radial_get(m_values, Radial_eMinR)) # {})

\* the values of an instance that differs from this one in halfLengthXmaxR
\* only
OtherHalfLengthXmaxR(h) ==
  [m_values EXCEPT ![DiscTrapezoid_eHalfLengthXmaxR + 1] = h]

\* C22: rCenter() and halfLengthY() of a DiscTrapezoidBounds are what they
\* are for every instance that differs from it in halfLengthXmaxR only.
C22_IndependentOfHalfLengthXmaxR ==
  /\ (shape = "DiscTrapezoid" /\ call.op = "rCenter") =>
       \A h \in Lens : ret = DiscTrapezoid_rCenter(OtherHalfLengthXmaxR(h))
  /\ (shape = "DiscTrapezoid" /\ call.op = "halfLengthY") =>
       \A h \in Lens : ret = DiscTrapezoid_halfLengthY(OtherHalfLengthXmaxR(h))

\* rCenter of a trapezoid between the radii 2 and 3 whose half length is 1
\* at the inner and 2 at the outer radius: both roots are taken with 1
C22_Witness ==
  /\ shape = "DiscTrapezoid"
  /\ call.op = "rCenter"
  /\ m_values[1] = 1 /\ m_values[2] = 2 /\ m_values[3] = 2 /\ m_values[4] = 3
  /\ ret = <<"0.5 * (hmin + hmax)", <<"sqrt", 3>>, <<"sqrt", 8>> >>

\* C24: insideRadialBounds(R, 0) of a RadialBounds or DiscTrapezoidBounds is
\* true exactly when minR <= R <= maxR; a radius equal to minR or maxR is
\* inside.
C24_InsideRadialBoundsClosed ==
  (call.op = "insideRadialBounds" /\ call.args[2] = 0) =>
    /\ shape = "Radial" =>
         (ret <=> /\ Radial_get(m_values, Radial_eMinR) <= call.args[1]
                  /\ call.args[1] <= Radial_get(m_values, Radial_eMaxR))
    /\ shape = "DiscTrapezoid" =>
         (ret <=> /\ DiscTrapezoid_get(m_values, DiscTrapezoid_eMinR) <= call.args[1]
                  /\ call.args[1] <= DiscTrapezoid_get(m_values, DiscTrapezoid_eMaxR))

\* C25: stereo() of a DiscTrapezoidBounds returns the stereo parameter of the
\* instance: stereo() = get(eStereo) = values()[eStereo].
C25_StereoIsTheParameter ==
  (shape = "DiscTrapezoid" /\ call.op = "stereo") =>
    /\ ret = DiscTrapezoid_get(m_values, DiscTrapezoid_eStereo)
    /\ ret = DiscTrapezoid_values(m_values)[DiscTrapezoid_eStereo + 1]

\* C26: every DiscTrapezoidBounds that exists has minR > 0, maxR > 0,
\* 0 <= halfLengthXminR <= minR and 0 <= halfLengthXmaxR <= maxR, and
\* halfPhiSector(), rCenter() and halfLengthY() neither divide by zero nor
\* take the asin of a value outside [-1, 1] nor the root of a negative number.
C26_DiscTrapezoidAdmitsValidOnly ==
  shape = "DiscTrapezoid" =>
    LET hxmin == DiscTrapezoid_get(m_values, DiscTrapezoid_eHalfLengthXminR)
        hxmax == DiscTrapezoid_get(m_values, DiscTrapezoid_eHalfLengthXmaxR)
        minR == DiscTrapezoid_get(m_values, DiscTrapezoid_eMinR)
        maxR == DiscTrapezoid_get(m_values, DiscTrapezoid_eMaxR)
    IN  /\ minR > 0 /\ maxR > 0
        /\ 0 <= hxmin /\ hxmin <= minR
        /\ 0 <= hxmax /\ hxmax <= maxR
        /\ call.op \in {"halfPhiSector", "rCenter", "halfLengthY"} =>
             \A i \in 2 .. 3 : ret[i] \notin {"NaN", "division by zero"}

\* C27: dispatch(event) on a machine whose derived class defines no on_event
\* for the current state and the event leaves it in Terminated, and
\* terminated() is true.
C27_UnhandledEventTerminates ==
  [][(call'.op = "dispatch" /\ <<m_state, call'.args[1]>> \notin built.args[1])
       => (m_state' = Terminated /\ terminated(m_state'))]_vars

\* a machine in state B without a handler for (B, e2) was sent e2: it left
\* B and entered Terminated
C27_Witness ==
  /\ call = [op |-> "dispatch", args |-> <<"e2">>]
  /\ <<"B", "e2">> \notin built.args[1]
  /\ Len(hooks) = 2
  /\ hooks[1].hook = "on_exit" /\ hooks[1].state = "B"
  /\ m_state = Terminated

\* the hooks setState(new) calls on a machine in state old are the last the
\* operation called
RanSetState(old, new, called) ==
  /\ Len(called) >= 2
  /\ called[Len(called) - 1] = Hook("on_exit", old, "none", old, "void")
  /\ called[Len(called)] = Hook("on_enter", new, "none", new, "void")

\* a dispatch whose on_event handler returned an empty optional leaves
\* m_state as it is and calls no hook but the handler
EmptyOptionalKeepsState ==
  (/\ call'.op = "dispatch"
   /\ hooks' # <<>>
   /\ hooks'[1].hook = "on_event"
   /\ hooks'[1].returned = nullopt)
    => /\ m_state' = m_state
       /\ hooks' = <<Hook("on_event", m_state, call'.args[1], m_state, nullopt)>>

\* C28 as stated: when the on_event handler for the current state and the
\* event returns an empty optional, dispatch leaves m_state as it is and calls
\* neither on_exit nor on_enter; and m_state of a constructed machine changes
\* only through setState.
C28_StateChangesOnlyThroughSetState ==
  [][/\ EmptyOptionalKeepsState
     /\ (shape = "FiniteStateMachine" /\ m_state' # m_state)
          => RanSetState(m_state, m_state', hooks')]_vars

\* C28: when the on_event handler for the current state and the event returns
\* an empty optional, dispatch leaves m_state as it is and calls neither
\* on_exit nor on_enter; dispatch changes m_state only through setState, and
\* outside setState and dispatch only an assignment through the reference of
\* the non-const getState() changes it.
C28_EmptyOptionalKeepsState ==
  [][/\ EmptyOptionalKeepsState
     /\ (shape = "FiniteStateMachine" /\ m_state' # m_state)
          => \/ /\ call'.op \in {"dispatch", "setState"}
                /\ RanSetState(m_state, m_state', hooks')
             \/ /\ call'.op = "getState"
                /\ hooks' = <<>>]_vars

\* the handler for (A, e1) returned an empty optional: the machine is still
\* in A and only on_event was called
C28_Witness ==
  /\ call = [op |-> "dispatch", args |-> <<"e1">>]
  /\ <<"A", "e1">> \in built.args[1]
  /\ m_state = "A"
  /\ hooks = <<Hook("on_event", "A", "e1", "A", nullopt)>>

\* the calls of the hook named among the calls of an operation
HooksNamed(hook, called) == {i \in 1 .. Len(called) : called[i].hook = hook}

\* C29: every state change, by setState or through dispatch, calls on_exit
\* with the old state while it is still m_state, then replaces m_state, then
\* calls on_enter with the new state as m_state; each of the two hooks runs
\* at most once in a transition and on_exit comes before on_enter.
C29_ExitReplaceEnter ==
  [][call'.op \in {"setState", "dispatch"} =>
       LET exits == HooksNamed("on_exit", hooks')
           enters == HooksNamed("on_enter", hooks')
       IN  /\ Cardinality(exits) <= 1
           /\ Cardinality(enters) <= 1
           /\ (call'.op = "setState" \/ m_state' # m_state)
                => (exits # {} /\ enters # {})
           /\ \A i \in exits :
                /\ hooks'[i].state = m_state
                /\ hooks'[i].current = m_state
                /\ \A j \in enters : i < j
           /\ \A j \in enters :
                /\ hooks'[j].state = m_state'
                /\ hooks'[j].current = m_state'
                /\ exits # {}]_vars

\* dispatch of e1 moved the machine from A to B: on_exit saw A as the
\* current state, on_enter saw B
C29_Witness ==
  /\ call = [op |-> "dispatch", args |-> <<"e1">>]
  /\ m_state = "B"
  /\ hooks = <<Hook("on_event", "A", "e1", "A", "B"),
               Hook("on_exit", "A", "none", "A", "void"),
               Hook("on_enter", "B", "none", "B", "void")>>

\* C30: for a derived class with no on_event handler for Terminated, a
\* dispatch on a terminated machine leaves it terminated, whatever the event;
\* and a default-constructed machine starts in the first of the listed
\* states, which is not Terminated.
C30_TerminatedAbsorbing ==
  [][/\ (/\ call'.op = "dispatch"
         /\ terminated(m_state)
         /\ \A event \in Events : <<Terminated, event>> \notin built.args[1])
          => terminated(m_state')
     /\ call'.op = "FiniteStateMachine()"
          => (m_state' = StatesList[1] /\ ~terminated(m_state'))]_vars

\* a default-constructed machine without handlers for Terminated that was
\* terminated by an unhandled event and then dispatched e1 again
C30_Witness ==
  /\ built.op = "FiniteStateMachine()"
  /\ \A event \in Events : <<Terminated, event>> \notin built.args[1]
  /\ call = [op |-> "dispatch", args |-> <<"e1">>]
  /\ terminated(m_state)
  /\ hooks = <<Hook("on_exit", Terminated, "none", Terminated, "void"),
               Hook("on_enter", Terminated, "none", Terminated, "void")>>

====
